---------------------------- MODULE Spec2Model ----------------------------
(***************************************************************************)
(* Realtime camera overlay app: the App component of src/unnamed/part_001  *)
(* (detector readiness tracked as state, three generated alternatives,     *)
(* throttled detection, 2.0x overlay) and the earlier App component of     *)
(* src/src/App.tsx (one generated image, draw effect re-run on every       *)
(* detection update).                                                      *)
(*                                                                         *)
(* Every JavaScript callback (event handler, promise continuation, image   *)
(* onload, animation-frame callback, effect run) runs to completion on the *)
(* single event loop, so each is one atomic action.  A state update made   *)
(* by a handler and the effects React re-runs for it are one action.       *)
(***************************************************************************)
EXTENDS Integers, Sequences, FiniteSets, TLC

(***************************************************************************)
(* Bounds of the model.                                                    *)
(***************************************************************************)
MaxPixels == 2
MaxTime == 100
MaxGens == 2
MaxLoads == 2
MaxDets == 2
MaxLoops == 2
MaxRuns == 3

(***************************************************************************)
(* Chroma key: the pixel loop of overlayImg.onload.  An ImageData buffer   *)
(* is a flat array r,g,b,a,r,g,b,a,... of bytes.                           *)
(***************************************************************************)
GREEN_MIN == 100

\* Channel values around the thresholds of the rule (100, and 1.5 x 67 =
\* 100.5, 1.5 x 68 = 102), and the extremes.
FineChannel == {0, 67, 68, 100, 101, 102, 103, 255}
FineAlpha == {0, 128, 255}
CoarseChannel == {0, 255}
CoarseAlpha == {128, 255}

FinePixels == FineChannel \X FineChannel \X FineChannel \X FineAlpha
CoarsePixels == CoarseChannel \X CoarseChannel \X CoarseChannel \X CoarseAlpha

RECURSIVE Flatten(_)
Flatten(pixels) ==
    IF pixels = <<>> THEN <<>> ELSE Head(pixels) \o Flatten(Tail(pixels))

\* The buffers getImageData can hand to the loop: the empty one, every
\* one-pixel buffer over the fine values, every longer one over the coarse.
TestBuffers ==
    {<<>>} \cup {Flatten(<<p>>) : p \in FinePixels}
           \cup UNION {{Flatten(ps) : ps \in [1..n -> CoarsePixels]} : n \in 2..MaxPixels}

\* g > 100 && g > r * 1.5 && g > b * 1.5.  r * 1.5 is a multiple of one half,
\* exact in a double, so g > r * 1.5 is 2g > 3r.
IsGreenAlt(r, g, b) == g >= GREEN_MIN /\ 2 * g > 3 * r /\ 2 * g > 3 * b
IsGreen(r, g, b) == g > GREEN_MIN /\ 2 * g > 3 * r /\ 2 * g > 3 * b

\* The loop body at index i (1-based here; data[i], data[i+1], data[i+2] are
\* r, g, b and data[i+3] is alpha).
KeyPixelAtAlt(data, i) ==
    IF IsGreen(data[i], data[i + 1], data[i + 2])
    THEN [data EXCEPT ![i + 3] = @ \div 2]
    ELSE data
KeyPixelAt(data, i) ==
    IF IsGreen(data[i], data[i + 1], data[i + 2])
    THEN [data EXCEPT ![i + 3] = 0]
    ELSE data

\* for (let i = 0; i < data.length; i += 4) { ... }
RECURSIVE KeyLoop(_, _)
KeyLoop(data, i) ==
    IF i > Len(data) THEN data ELSE KeyLoop(KeyPixelAt(data, i), i + 4)

ChromaKeyPass(data) == KeyLoop(data, 1)

NumPixels(data) == Len(data) \div 4
PixelOf(data, k) == <<data[4 * k - 3], data[4 * k - 2], data[4 * k - 1], data[4 * k]>>


(***************************************************************************)
(* State.                                                                  *)
(***************************************************************************)
VARIABLES
    \* a chroma-key pass run on a buffer of its own
    keyIn,                \* the buffer getImageData returned
    keyFirst,             \* the buffer after the first pass over it
    keyOut,               \* the buffer after the latest pass
    keyPasses,            \* passes run so far
    \* the component
    mounted,              \* the App component is mounted
    hasApiKey,            \* import.meta.env.VITE_WEAVER_AI_API_KEY is set
    prompt,               \* useState('')
    isCameraReady,        \* useState(false)
    useFallback,          \* useState(false)
    isDetectorReady,      \* useState(false)
    generatedImages,      \* useState<string[]>([])
    selectedImageIndex,   \* useState<number>(0), 0-based as in the source
    isGenerating,         \* useState(false)
    faceDetectorRef,      \* TRUE when faceDetectorRef.current holds a detector
    animationFrameRef,    \* "null", or "id": the id of the latest detection request
    processedCanvasRef,   \* <<>> (null) or <<canvas>>
    lastDetectionTimeRef, \* useRef<number>(0)
    faceDetectionsRef,    \* useRef<any[]>([])
    \* the environment
    cameraReq,            \* the getUserMedia promise
    detectorReq,          \* the FilesetResolver / createFromOptions promises
    srcObject,            \* the stream assigned to the video element
    videoReady,           \* video.readyState === HAVE_ENOUGH_DATA
    videoSize,            \* <<video.videoWidth, video.videoHeight>>
    canvasSize,           \* <<canvas.width, canvas.height>> of the overlay canvas
    now,                  \* performance.now(), whole milliseconds
    rafDetect,            \* pending runDetection callbacks, in request order
    drawFrame,            \* the pending drawLoop callback
    gens,                 \* the generations started, in order
    loads,                \* Image objects whose src is set and not yet settled
    \* what happened, for the properties
    frame,                \* the latest compositing frame
    surface,              \* the draw operations on the overlay canvas since its last clear
    calls,                \* detectForVideo invocations: the latest timestamp and gap
    alerts,               \* alert() calls, per generation
    \* the App component of src/src/App.tsx
    legacyImage,          \* useState<string | null>(null): generatedImage
    legacyDetections,     \* useState<any[]>([]): faceDetections
    legacyLoops           \* the draw effect's runs: closure and pending callback

keyVars == <<keyIn, keyFirst, keyOut, keyPasses>>
stateVars == <<prompt, isCameraReady, useFallback, isDetectorReady, generatedImages,
               selectedImageIndex, isGenerating>>
refVars == <<faceDetectorRef, animationFrameRef, processedCanvasRef,
             lastDetectionTimeRef, faceDetectionsRef>>
envVars == <<cameraReq, detectorReq, srcObject, videoReady, videoSize, canvasSize, now,
             rafDetect, drawFrame, gens, loads>>
logVars == <<frame, surface, calls, alerts>>
legacyVars == <<legacyImage, legacyDetections, legacyLoops>>
appVars == <<mounted, hasApiKey, stateVars, refVars, envVars, logVars>>
vars == <<keyVars, appVars, legacyVars>>


(***************************************************************************)
(* Values.                                                                 *)
(***************************************************************************)
\* A prompt is the sequence of its characters.
Prompts == {<<>>, <<" ">>, <<"c", "a", "t">>}

RECURSIVE TrimStart(_)
TrimStart(str) ==
    IF str # <<>> /\ Head(str) = " " THEN TrimStart(Tail(str)) ELSE str

RECURSIVE TrimEnd(_)
TrimEnd(str) ==
    IF str # <<>> /\ str[Len(str)] = " "
    THEN TrimEnd(SubSeq(str, 1, Len(str) - 1))
    ELSE str

\* String.prototype.trim
Trim(str) == TrimEnd(TrimStart(str))

\* The URL request req of generation gen returns, and the placeholder.
Url(gen, req) == [path |-> "remote", gen |-> gen, req |-> req]
DUMMY_OVERLAY == [path |-> "/dummy-overlay.jpg", gen |-> 0, req |-> 0]
DummyImagesAlt == <<Url(1, 1), DUMMY_OVERLAY, DUMMY_OVERLAY>>
DummyImages == <<DUMMY_OVERLAY, DUMMY_OVERLAY, DUMMY_OVERLAY>>

\* The decoded pixels of the image at a URL: a generated image is a subject on
\* a green background, the placeholder a photograph.
ImageOf(url) ==
    IF url = DUMMY_OVERLAY
    THEN <<200, 150, 120, 255>>
    ELSE <<0, 255, 0, 255, 255, 0, 0, 255, 30, 200, 40, 255>>

\* A detection's bounding box, in video pixels.  The detector's boxes are
\* floating point; whole numbers stand for them, odd and even.
Boxes ==
    { [originX |-> 3, originY |-> 1, width |-> 1, height |-> 3],
      [originX |-> 0, originY |-> 2, width |-> 4, height |-> 2],
      [originX |-> 5, originY |-> 0, width |-> 2, height |-> 5] }

\* A detection of the face detector carries its bounding box.
Detections == {[boundingBox |-> <<b>>] : b \in Boxes}
DetSets == UNION {[1..n -> Detections] : n \in 0..MaxDets}

\* What the video element and its layout box can measure.
VideoSizes == {<<0, 0>>, <<640, 480>>, <<1280, 720>>}
VideoOffset == <<800, 600>>
DefaultCanvasSize == <<300, 150>>

\* performance.now() when the component mounts.
StartTimes == {10, 40}
\* Milliseconds between one animation frame and the next.
FrameSteps == {16, 17, 40}

NoFrame == [ran |-> FALSE, canvas |-> <<>>, dets |-> <<>>, draws |-> 0,
            resized |-> FALSE]
NoCalls == [last |-> -1, gap |-> -1]

Remove(seq, k) == SubSeq(seq, 1, k - 1) \o SubSeq(seq, k + 1, Len(seq))

(***************************************************************************)
(* Init: the state after the first render, before any effect's promise     *)
(* has settled.  The draw effect has requested its first frame (animId).   *)
(***************************************************************************)
InitKey ==
    /\ keyIn = <<>>
    /\ keyFirst = <<>>
    /\ keyOut = <<>>
    /\ keyPasses = 0

InitLegacy ==
    /\ legacyImage = <<>>
    /\ legacyDetections = <<>>
    /\ legacyLoops = <<>>

InitApp ==
    /\ mounted = TRUE
    /\ hasApiKey \in BOOLEAN
    /\ prompt = <<>>
    /\ isCameraReady = FALSE
    /\ useFallback = FALSE
    /\ isDetectorReady = FALSE
    /\ generatedImages = <<>>
    /\ selectedImageIndex = 0
    /\ isGenerating = FALSE
    /\ faceDetectorRef = FALSE
    /\ animationFrameRef = "null"
    /\ processedCanvasRef = <<>>
    /\ lastDetectionTimeRef = 0
    /\ faceDetectionsRef = <<>>
    /\ cameraReq = "pending"
    /\ detectorReq = "pending"
    /\ srcObject = "none"
    /\ videoReady = FALSE
    /\ videoSize = <<0, 0>>
    /\ canvasSize = DefaultCanvasSize
    /\ now \in StartTimes
    /\ rafDetect = <<>>
    /\ drawFrame = "animId"
    /\ gens = <<>>
    /\ loads = <<>>
    /\ frame = NoFrame
    /\ surface = <<>>
    /\ calls = NoCalls
    /\ alerts = <<>>

Init == InitKey /\ InitApp /\ InitLegacy


(***************************************************************************)
(* A chroma-key pass on a buffer of its own: the loop applied to every     *)
(* test buffer, once and then again to its own output.                     *)
(***************************************************************************)
InitChroma ==
    /\ keyIn \in TestBuffers
    /\ keyFirst = <<>>
    /\ keyOut = keyIn
    /\ keyPasses = 0
    /\ InitApp
    /\ InitLegacy

RunPass ==
    /\ keyPasses < 2
    /\ keyOut' = ChromaKeyPass(keyOut)
    /\ keyFirst' = IF keyPasses = 0 THEN keyOut' ELSE keyFirst
    /\ keyPasses' = keyPasses + 1
    /\ UNCHANGED <<keyIn, appVars, legacyVars>>

NextChroma == RunPass

SpecChroma == InitChroma /\ [][NextChroma]_vars

(***************************************************************************)
(* The compositing loop: drawLoop of the draw effect.                      *)
(***************************************************************************)
SCALE_FACTOR == 2

\* a || b on numbers
OrElse(a, b) == IF a # 0 THEN a ELSE b

\* video.offsetWidth, video.offsetHeight: the layout box of the video element,
\* which has none once it is out of the document.
OffsetSize == IF mounted /\ ~useFallback THEN VideoOffset ELSE <<0, 0>>

\* Match canvas size to video.
FittedSizeAlt(canvas, video) == canvas
FittedSize(canvas, video) ==
    IF canvas[1] # video[1] \/ canvas[2] # video[2]
    THEN <<OrElse(video[1], OffsetSize[1]), OrElse(video[2], OffsetSize[2])>>
    ELSE canvas

\* ctx.clearRect(0, 0, canvas.width, canvas.height)
ClearRectAlt(ops) == ops
ClearRect(ops) == <<>>

\* ctx.drawImage(processedCanvas, x, y, scaledWidth, scaledHeight) for one
\* bounding box.  x and y may be half pixels: x2 and y2 are twice x and y.
DrawOpAlt(canvas, det, bbox) ==
    [img |-> canvas, det |-> det,
     x2 |-> 2 * bbox.originX, y2 |-> 2 * bbox.originY,
     w |-> bbox.width * SCALE_FACTOR, h |-> bbox.height * SCALE_FACTOR]
DrawOp(canvas, det, bbox) ==
    LET scaledWidth == bbox.width * SCALE_FACTOR
        scaledHeight == bbox.height * SCALE_FACTOR
    IN [img |-> canvas, det |-> det,
        x2 |-> 2 * bbox.originX - (scaledWidth - bbox.width),
        y2 |-> 2 * bbox.originY - (scaledHeight - bbox.height),
        w |-> scaledWidth, h |-> scaledHeight]

\* currentDetections.forEach(detection => { if (bbox) { ... drawImage ... } })
RECURSIVE DrawEach(_, _)
DrawEach(canvas, dets) ==
    IF dets = <<>>
    THEN <<>>
    ELSE (IF Head(dets).boundingBox # <<>>
          THEN <<DrawOp(canvas, Head(dets), Head(dets).boundingBox[1])>>
          ELSE <<>>)
         \o DrawEach(canvas, Tail(dets))

\* if (processedCanvas && currentDetections.length > 0) { forEach ... }
FrameOpsAlt(canvasRef, dets) ==
    IF canvasRef # <<>> /\ Len(dets) > 0 THEN DrawEach(canvasRef[1], <<Head(dets)>>) ELSE <<>>
FrameOps(canvasRef, dets) ==
    IF canvasRef # <<>> /\ Len(dets) > 0 THEN DrawEach(canvasRef[1], dets) ELSE <<>>

\* requestAnimationFrame(drawLoop) at the end of drawLoop: the id is dropped.
RescheduleAlt(ops) == IF ops = <<>> THEN "none" ELSE "later"
Reschedule(ops) == "later"

\* One animation-frame callback of the compositing loop.
DrawLoop ==
    /\ drawFrame # "none"
    /\ LET processedCanvas == processedCanvasRef
           currentDetections == faceDetectionsRef
           ops == FrameOps(processedCanvas, currentDetections)
           size == FittedSize(canvasSize, videoSize)
       IN /\ canvasSize' = size
          /\ surface' = ClearRect(surface) \o ops
          /\ drawFrame' = Reschedule(ops)
          /\ frame' = [ran |-> TRUE, canvas |-> processedCanvas,
                       dets |-> currentDetections, draws |-> Len(ops),
                       resized |-> size # canvasSize]
    /\ UNCHANGED <<keyVars, mounted, hasApiKey, stateVars, refVars, legacyVars>>
    /\ UNCHANGED <<cameraReq, detectorReq, srcObject, videoReady, videoSize, now,
                   rafDetect, gens, loads>>
    /\ UNCHANGED <<calls, alerts>>

(***************************************************************************)
(* The image processing effect, [generatedImages, selectedImageIndex].     *)
(* It has no cleanup: an Image whose src was set stays in flight and its   *)
(* onload runs whatever was selected or generated since.                   *)
(***************************************************************************)
\* generatedImages[selectedImageIndex]: <<>> when undefined
SelectedImage(images, index) ==
    IF index + 1 <= Len(images) THEN <<images[index + 1]>> ELSE <<>>

\* if (!selectedImage) { processedCanvasRef.current = null; return; }
EffectCanvas(images, index, canvasRef) ==
    IF SelectedImage(images, index) = <<>> THEN <<>> ELSE canvasRef

\* const overlayImg = new Image(); ...; overlayImg.src = selectedImage
EffectLoadsAlt(images, index, pending) ==
    IF SelectedImage(images, index) = <<>>
    THEN pending
    ELSE pending \o <<SelectedImage(images, index)[1], SelectedImage(images, index)[1]>>
EffectLoads(images, index, pending) ==
    IF SelectedImage(images, index) = <<>>
    THEN pending
    ELSE Append(pending, SelectedImage(images, index)[1])

\* Whether the effect run for these values fits the model's bound on loads.
EffectFits(images, index) ==
    SelectedImage(images, index) = <<>> \/ Len(loads) < MaxLoads

\* overlayImg.onload: the temporary canvas after drawImage, the pixel loop and
\* putImageData.  src names the image it was drawn from.
ProcessImageAlt(url) == [src |-> url, data |-> ImageOf(url)]
ProcessImage(url) == [src |-> url, data |-> ChromaKeyPass(ImageOf(url))]

\* overlayImg.onload of the k-th Image in flight
OverlayImgOnload(k) ==
    /\ k \in 1..Len(loads)
    /\ processedCanvasRef' = <<ProcessImage(loads[k])>>
    /\ loads' = Remove(loads, k)
    /\ UNCHANGED <<keyVars, mounted, hasApiKey, stateVars, legacyVars>>
    /\ UNCHANGED <<faceDetectorRef, animationFrameRef, lastDetectionTimeRef, faceDetectionsRef>>
    /\ UNCHANGED <<cameraReq, detectorReq, srcObject, videoReady, videoSize, canvasSize,
                   now, rafDetect, drawFrame, gens>>
    /\ UNCHANGED <<frame, surface, calls, alerts>>

\* overlayImg.onerror of the k-th Image in flight: logs only
OverlayImgOnerror(k) ==
    /\ k \in 1..Len(loads)
    /\ loads' = Remove(loads, k)
    /\ UNCHANGED <<keyVars, mounted, hasApiKey, stateVars, refVars, legacyVars>>
    /\ UNCHANGED <<cameraReq, detectorReq, srcObject, videoReady, videoSize, canvasSize,
                   now, rafDetect, drawFrame, gens>>
    /\ UNCHANGED logVars

\* onClick={() => setSelectedImageIndex(index)} of a thumbnail button, which is
\* rendered per generated image and disabled while isGenerating.
SelectImage(index) ==
    /\ mounted
    /\ ~isGenerating
    /\ index \in 0..(Len(generatedImages) - 1)
    /\ EffectFits(generatedImages, index)
    /\ selectedImageIndex' = index
    /\ IF index = selectedImageIndex
       THEN UNCHANGED <<processedCanvasRef, loads>>
       ELSE /\ processedCanvasRef' = EffectCanvas(generatedImages, index, processedCanvasRef)
            /\ loads' = EffectLoads(generatedImages, index, loads)
    /\ UNCHANGED <<keyVars, mounted, hasApiKey, legacyVars>>
    /\ UNCHANGED <<prompt, isCameraReady, useFallback, isDetectorReady, generatedImages,
                   isGenerating>>
    /\ UNCHANGED <<faceDetectorRef, animationFrameRef, lastDetectionTimeRef, faceDetectionsRef>>
    /\ UNCHANGED <<cameraReq, detectorReq, srcObject, videoReady, videoSize, canvasSize,
                   now, rafDetect, drawFrame, gens>>
    /\ UNCHANGED logVars

(***************************************************************************)
(* Image generation: handleGenerateImage.                                  *)
(***************************************************************************)
\* How one request of generateSingleImage ends: an image URL, a rejected
\* fetch, a non-2xx status, data.status 'failed', or no outputs in the payload.
Outcomes == {"ok", "network", "status", "failed", "nooutput"}

\* the URLs Promise.all resolves with, in request order
GenUrlsAlt(g) == <<Url(g, 2), Url(g, 1), Url(g, 3)>>
GenUrls(g) == <<Url(g, 1), Url(g, 2), Url(g, 3)>>
NewGen == [reqs |-> <<"pending", "pending", "pending">>, result |-> "pending"]
NoKeyGen == [reqs |-> <<"unsent", "unsent", "unsent">>, result |-> "nokey"]

\* alert(...) in the catch block, counted for generation g
AlertAlt(counts, g) == counts
Alert(counts, g) == [counts EXCEPT ![g] = @ + 1]

\* setGeneratedImages([...]) of the catch block
FallbackImagesAlt == <<>>
FallbackImagesShort == <<DUMMY_OVERLAY, DUMMY_OVERLAY>>
FallbackImages == DummyImages

\* handleGenerateImage(customPrompt).  The generate button passes its click
\* event as customPrompt, the Enter key passes nothing.  Up to the first await
\* the function runs inside the event handler; its state updates are rendered
\* together and the image effect runs once, for the last values.
HandleGenerateImage(customPrompt) ==
    IF customPrompt = "event"
    THEN \* (customPrompt || prompt).trim(): an event object has no trim; the
         \* TypeError rejects the promise handleGenerateImage returns
         UNCHANGED vars
    ELSE IF Trim(prompt) = <<>>
    THEN UNCHANGED vars
    ELSE /\ Len(gens) < MaxGens
         /\ IF hasApiKey
            THEN /\ isGenerating' = TRUE
                 /\ generatedImages' = <<>>
                 /\ selectedImageIndex' = 0
                 /\ gens' = Append(gens, NewGen)
                 /\ alerts' = Append(alerts, 0)
                 /\ processedCanvasRef' = EffectCanvas(<<>>, 0, processedCanvasRef)
                 /\ loads' = EffectLoads(<<>>, 0, loads)
            ELSE \* throw before any request: catch and finally run at once
                 /\ EffectFits(FallbackImages, 0)
                 /\ isGenerating' = FALSE
                 /\ generatedImages' = FallbackImages
                 /\ selectedImageIndex' = 0
                 /\ gens' = Append(gens, NoKeyGen)
                 /\ alerts' = Alert(Append(alerts, 0), Len(gens) + 1)
                 /\ processedCanvasRef' = EffectCanvas(FallbackImages, 0, processedCanvasRef)
                 /\ loads' = EffectLoads(FallbackImages, 0, loads)
         /\ UNCHANGED <<keyVars, mounted, hasApiKey, legacyVars>>
         /\ UNCHANGED <<prompt, isCameraReady, useFallback, isDetectorReady>>
         /\ UNCHANGED <<faceDetectorRef, animationFrameRef, lastDetectionTimeRef,
                        faceDetectionsRef>>
         /\ UNCHANGED <<cameraReq, detectorReq, srcObject, videoReady, videoSize,
                        canvasSize, now, rafDetect, drawFrame>>
         /\ UNCHANGED <<frame, surface, calls>>

\* onChange of the prompt input
SetPrompt(p) ==
    /\ mounted
    /\ prompt' = p
    /\ UNCHANGED <<keyVars, mounted, hasApiKey, refVars, envVars, logVars, legacyVars>>
    /\ UNCHANGED <<isCameraReady, useFallback, isDetectorReady, generatedImages,
                   selectedImageIndex, isGenerating>>

\* onKeyDown of the prompt input, key 'Enter'
KeyDownEnter(isComposing) ==
    /\ mounted
    /\ IF isComposing THEN UNCHANGED vars ELSE HandleGenerateImage("undefined")

\* onClick of the generate button, disabled={!prompt.trim() || isGenerating}
ClickGenerate ==
    /\ mounted
    /\ Trim(prompt) # <<>>
    /\ ~isGenerating
    /\ HandleGenerateImage("event")

\* Request i of generation g ends with outcome.  Promise.all rejects on the
\* first failure and fulfils on the third URL; the catch or the success path,
\* then finally, run for that generation once.  A later request of a settled
\* generation only logs.  After unmount the state setters do nothing.
SettleRequest(g, i, outcome) ==
    /\ g \in 1..Len(gens)
    /\ i \in 1..3
    /\ gens[g].reqs[i] = "pending"
    /\ LET reqs == [gens[g].reqs EXCEPT ![i] = IF outcome = "ok" THEN "ok" ELSE "fail"]
           rejected == gens[g].result = "pending" /\ outcome # "ok"
           fulfilled == gens[g].result = "pending" /\ \A j \in 1..3 : reqs[j] = "ok"
           images == IF rejected THEN FallbackImages ELSE GenUrls(g)
           result == IF rejected THEN outcome
                     ELSE IF fulfilled THEN "ok" ELSE gens[g].result
       IN /\ gens' = [gens EXCEPT ![g] = [reqs |-> reqs, result |-> result]]
          /\ alerts' = IF rejected THEN Alert(alerts, g) ELSE alerts
          /\ IF (rejected \/ fulfilled) /\ mounted
             THEN /\ EffectFits(images, 0)
                  /\ generatedImages' = images
                  /\ selectedImageIndex' = 0
                  /\ isGenerating' = FALSE
                  /\ processedCanvasRef' = EffectCanvas(images, 0, processedCanvasRef)
                  /\ loads' = EffectLoads(images, 0, loads)
             ELSE UNCHANGED <<generatedImages, selectedImageIndex, isGenerating,
                              processedCanvasRef, loads>>
    /\ UNCHANGED <<keyVars, mounted, hasApiKey, legacyVars>>
    /\ UNCHANGED <<prompt, isCameraReady, useFallback, isDetectorReady>>
    /\ UNCHANGED <<faceDetectorRef, animationFrameRef, lastDetectionTimeRef, faceDetectionsRef>>
    /\ UNCHANGED <<cameraReq, detectorReq, srcObject, videoReady, videoSize, canvasSize,
                   now, rafDetect, drawFrame>>
    /\ UNCHANGED <<frame, surface, calls>>

(***************************************************************************)
(* Unmount: the cleanups of the camera effect, the detection effect and    *)
(* the draw effect.                                                        *)
(***************************************************************************)
\* cancelAnimationFrame(animationFrameRef.current), when the ref is set: it
\* removes the request whose id the ref holds, if that is still pending.
CancelDetectionAlt(pending) == pending
CancelDetection(pending) ==
    IF animationFrameRef = "id"
    THEN SelectSeq(pending, LAMBDA t : ~t.latest)
    ELSE pending

\* cancelAnimationFrame(animId): animId is the id of the effect's own request;
\* the requests drawLoop makes have other ids.
CancelDrawAlt(pending) == "none"
CancelDraw(pending) == IF pending = "animId" THEN "none" ELSE pending

\* tracks.forEach(track => track.stop()), guarded by videoRef.current?.srcObject
StopTracks(refSet) ==
    IF refSet /\ srcObject = "live" THEN "stopped" ELSE srcObject

\* refSet: whether videoRef.current still holds the element when the cleanup
\* runs, which is for the React version in use to decide.
Unmount ==
    /\ mounted
    /\ mounted' = FALSE
    /\ \E refSet \in BOOLEAN : srcObject' = StopTracks(refSet)
    /\ rafDetect' = CancelDetection(rafDetect)
    /\ drawFrame' = CancelDraw(drawFrame)
    /\ UNCHANGED <<keyVars, hasApiKey, stateVars, refVars, logVars, legacyVars>>
    /\ UNCHANGED <<cameraReq, detectorReq, videoReady, videoSize, canvasSize, now,
                   gens, loads>>

(***************************************************************************)
(* The detection loop: detectFaces / runDetection, and the effect of       *)
(* [isCameraReady, isDetectorReady, detectFaces] that starts it.           *)
(***************************************************************************)
DETECTION_INTERVAL == 33

\* animationFrameRef.current = requestAnimationFrame(runDetection): the new
\* request is the one the ref names from now on.
RequestDetectionAlt(pending, closure) == pending
RequestDetection(pending, closure) ==
    Append([k \in DOMAIN pending |-> [pending[k] EXCEPT !.latest = FALSE]],
           [cam |-> closure.cam, fb |-> closure.fb, latest |-> TRUE])

\* faceDetectorRef.current.detectForVideo(video, now) was called at time t
Invoked(c, t) == [last |-> t, gap |-> IF c.last = -1 THEN -1 ELSE t - c.last]

\* if (timeSinceLastDetection >= DETECTION_INTERVAL)
IntervalElapsed(t, last) == t - last >= DETECTION_INTERVAL

\* One run of runDetection at time t, by the closure of a render (its
\* isCameraReady and useFallback), with the other pending requests given.
\* detector, videoEl: faceDetectorRef.current and videoRef.current are set.
\* detectForVideo returns a detection set or throws; lastDetectionTimeRef is
\* assigned after it returned, inside the try.
RunDetection(closure, detector, videoEl, t, pending) ==
    /\ rafDetect' = RequestDetection(pending, closure)
    /\ animationFrameRef' = "id"
    /\ IF ~detector \/ ~videoEl \/ ~closure.cam \/ closure.fb
       THEN UNCHANGED <<faceDetectionsRef, lastDetectionTimeRef, calls>>
       ELSE IF IntervalElapsed(t, lastDetectionTimeRef) /\ videoReady
       THEN \/ \E dets \in DetSets :
                 /\ faceDetectionsRef' = dets
                 /\ lastDetectionTimeRef' = t
                 /\ calls' = Invoked(calls, t)
            \/ /\ calls' = Invoked(calls, t)
               /\ UNCHANGED <<faceDetectionsRef, lastDetectionTimeRef>>
       ELSE UNCHANGED <<faceDetectionsRef, lastDetectionTimeRef, calls>>

\* An animation frame runs the k-th pending runDetection, step ms after the
\* previous frame.
RunDetectionFrame(k, step) ==
    /\ k \in 1..Len(rafDetect)
    /\ now + step <= MaxTime
    /\ now' = now + step
    /\ RunDetection(rafDetect[k], faceDetectorRef, mounted /\ ~useFallback, now',
                    Remove(rafDetect, k))
    /\ UNCHANGED <<keyVars, mounted, hasApiKey, stateVars, legacyVars>>
    /\ UNCHANGED <<faceDetectorRef, processedCanvasRef>>
    /\ UNCHANGED <<cameraReq, detectorReq, srcObject, videoReady, videoSize, canvasSize,
                   drawFrame, gens, loads>>
    /\ UNCHANGED <<frame, surface, alerts>>

\* The detection effect after a render with these values: the cleanup of the
\* previous run, then detectFaces() when camera and detector are ready.
DetectionEffectAlt(cam, fb, detReady, detector) ==
    IF cam
    THEN RunDetection([cam |-> cam, fb |-> fb], detector, mounted /\ ~fb, now,
                      CancelDetection(rafDetect))
    ELSE /\ rafDetect' = CancelDetection(rafDetect)
         /\ UNCHANGED <<animationFrameRef, faceDetectionsRef, lastDetectionTimeRef, calls>>
DetectionEffect(cam, fb, detReady, detector) ==
    IF cam /\ detReady /\ detector
    THEN RunDetection([cam |-> cam, fb |-> fb], detector, mounted /\ ~fb, now,
                      CancelDetection(rafDetect))
    ELSE /\ rafDetect' = CancelDetection(rafDetect)
         /\ UNCHANGED <<animationFrameRef, faceDetectionsRef, lastDetectionTimeRef, calls>>

(***************************************************************************)
(* Camera and detector initialisation.                                     *)
(***************************************************************************)
\* getUserMedia resolved: startCamera after its await
CameraResolved ==
    /\ cameraReq = "pending"
    /\ cameraReq' = "settled"
    /\ IF mounted
       THEN /\ srcObject' = "live"
            /\ isCameraReady' = TRUE
            /\ useFallback' = FALSE
            /\ DetectionEffect(TRUE, FALSE, isDetectorReady, faceDetectorRef)
       ELSE \* videoRef.current is null: the stream is dropped as it is
            /\ srcObject' = "unattached"
            /\ UNCHANGED <<isCameraReady, useFallback, rafDetect, animationFrameRef,
                           faceDetectionsRef, lastDetectionTimeRef, calls>>
    /\ UNCHANGED <<keyVars, mounted, hasApiKey, legacyVars>>
    /\ UNCHANGED <<prompt, isDetectorReady, generatedImages, selectedImageIndex, isGenerating>>
    /\ UNCHANGED <<faceDetectorRef, processedCanvasRef>>
    /\ UNCHANGED <<detectorReq, videoReady, videoSize, canvasSize, now, drawFrame, gens, loads>>
    /\ UNCHANGED <<frame, surface, alerts>>

\* getUserMedia rejected: the catch of startCamera
CameraRejected ==
    /\ cameraReq = "pending"
    /\ cameraReq' = "settled"
    /\ IF mounted
       THEN /\ useFallback' = TRUE
            /\ isCameraReady' = TRUE
            /\ DetectionEffect(TRUE, TRUE, isDetectorReady, faceDetectorRef)
       ELSE UNCHANGED <<isCameraReady, useFallback, rafDetect, animationFrameRef,
                        faceDetectionsRef, lastDetectionTimeRef, calls>>
    /\ UNCHANGED <<keyVars, mounted, hasApiKey, legacyVars>>
    /\ UNCHANGED <<prompt, isDetectorReady, generatedImages, selectedImageIndex, isGenerating>>
    /\ UNCHANGED <<faceDetectorRef, processedCanvasRef>>
    /\ UNCHANGED <<detectorReq, srcObject, videoReady, videoSize, canvasSize, now, drawFrame,
                   gens, loads>>
    /\ UNCHANGED <<frame, surface, alerts>>

\* createFromOptions resolved, were readiness kept in the ref alone
DetectorResolvedAlt ==
    /\ detectorReq = "pending"
    /\ detectorReq' = "settled"
    /\ faceDetectorRef' = TRUE
    /\ UNCHANGED <<keyVars, mounted, hasApiKey, stateVars, logVars, legacyVars>>
    /\ UNCHANGED <<animationFrameRef, processedCanvasRef, lastDetectionTimeRef,
                   faceDetectionsRef>>
    /\ UNCHANGED <<cameraReq, srcObject, videoReady, videoSize, canvasSize, now, rafDetect,
                   drawFrame, gens, loads>>

\* createFromOptions resolved: initFaceDetector after its awaits
DetectorResolved ==
    /\ detectorReq = "pending"
    /\ detectorReq' = "settled"
    /\ faceDetectorRef' = TRUE
    /\ IF mounted
       THEN /\ isDetectorReady' = TRUE
            /\ DetectionEffect(isCameraReady, useFallback, TRUE, TRUE)
       ELSE UNCHANGED <<isDetectorReady, rafDetect, animationFrameRef, faceDetectionsRef,
                        lastDetectionTimeRef, calls>>
    /\ UNCHANGED <<keyVars, mounted, hasApiKey, legacyVars>>
    /\ UNCHANGED <<prompt, isCameraReady, useFallback, generatedImages, selectedImageIndex,
                   isGenerating>>
    /\ UNCHANGED processedCanvasRef
    /\ UNCHANGED <<cameraReq, srcObject, videoReady, videoSize, canvasSize, now, drawFrame,
                   gens, loads>>
    /\ UNCHANGED <<frame, surface, alerts>>

\* forVisionTasks or createFromOptions rejected: setIsDetectorReady(false)
\* leaves the state as it is
DetectorRejected ==
    /\ detectorReq = "pending"
    /\ detectorReq' = "settled"
    /\ UNCHANGED <<keyVars, mounted, hasApiKey, stateVars, refVars, logVars, legacyVars>>
    /\ UNCHANGED <<cameraReq, srcObject, videoReady, videoSize, canvasSize, now, rafDetect,
                   drawFrame, gens, loads>>

\* The video element has frames to show: readyState HAVE_ENOUGH_DATA, and the
\* stream's resolution as videoWidth and videoHeight.
VideoCanPlay(size) ==
    /\ srcObject = "live"
    /\ ~videoReady
    /\ size \in VideoSizes \ {<<0, 0>>}
    /\ videoReady' = TRUE
    /\ videoSize' = size
    /\ UNCHANGED <<keyVars, mounted, hasApiKey, stateVars, refVars, logVars, legacyVars>>
    /\ UNCHANGED <<cameraReq, detectorReq, srcObject, canvasSize, now, rafDetect, drawFrame,
                   gens, loads>>

\* The stream changes resolution.
VideoResize(size) ==
    /\ srcObject = "live"
    /\ videoReady
    /\ size \in VideoSizes \ {<<0, 0>>, videoSize}
    /\ videoSize' = size
    /\ UNCHANGED <<keyVars, mounted, hasApiKey, stateVars, refVars, logVars, legacyVars>>
    /\ UNCHANGED <<cameraReq, detectorReq, srcObject, videoReady, canvasSize, now, rafDetect,
                   drawFrame, gens, loads>>

(***************************************************************************)
(* The component of src/unnamed/part_001 as a whole.                       *)
(***************************************************************************)
Next ==
    \/ CameraResolved
    \/ CameraRejected
    \/ DetectorResolved
    \/ DetectorRejected
    \/ \E size \in VideoSizes : VideoCanPlay(size)
    \/ \E size \in VideoSizes : VideoResize(size)
    \/ \E k \in 1..MaxLoops, step \in FrameSteps : RunDetectionFrame(k, step)
    \/ DrawLoop
    \/ \E p \in Prompts : SetPrompt(p)
    \/ \E isComposing \in BOOLEAN : KeyDownEnter(isComposing)
    \/ ClickGenerate
    \/ \E g \in 1..MaxGens, i \in 1..3, outcome \in Outcomes : SettleRequest(g, i, outcome)
    \/ \E index \in 0..2 : SelectImage(index)
    \/ \E k \in 1..MaxLoads : OverlayImgOnload(k)
    \/ \E k \in 1..MaxLoads : OverlayImgOnerror(k)
    \/ Unmount

Spec == Init /\ [][Next]_vars

(***************************************************************************)
(* States the component reaches, from which parts of it are checked on     *)
(* their own.                                                              *)
(***************************************************************************)
\* Camera and detector are ready, the video plays at size, and runDetection,
\* started by the detection effect, has stored dets at its first run.
Running(dets, size) ==
    /\ mounted = TRUE
    /\ isCameraReady = TRUE
    /\ useFallback = FALSE
    /\ isDetectorReady = TRUE
    /\ faceDetectorRef = TRUE
    /\ cameraReq = "settled"
    /\ detectorReq = "settled"
    /\ srcObject = "live"
    /\ videoReady = TRUE
    /\ videoSize = size
    /\ canvasSize = DefaultCanvasSize
    /\ now \in {t \in StartTimes : t >= DETECTION_INTERVAL}
    /\ lastDetectionTimeRef = now
    /\ calls = [last |-> now, gap |-> -1]
    /\ faceDetectionsRef = dets
    /\ animationFrameRef = "id"
    /\ rafDetect = <<[cam |-> TRUE, fb |-> FALSE, latest |-> TRUE]>>
    /\ drawFrame = "animId"
    /\ frame = NoFrame
    /\ surface = <<>>

\* No generation was started; the prompt is typed.
NoGeneration(p) ==
    /\ hasApiKey \in BOOLEAN
    /\ prompt = p
    /\ generatedImages = <<>>
    /\ selectedImageIndex = 0
    /\ isGenerating = FALSE
    /\ processedCanvasRef = <<>>
    /\ gens = <<>>
    /\ loads = <<>>
    /\ alerts = <<>>

\* One generation succeeded and its first image was loaded and processed.
Generated(p) ==
    /\ hasApiKey = TRUE
    /\ prompt = p
    /\ generatedImages = GenUrls(1)
    /\ selectedImageIndex = 0
    /\ isGenerating = FALSE
    /\ processedCanvasRef = <<ProcessImage(Url(1, 1))>>
    /\ gens = <<[reqs |-> <<"ok", "ok", "ok">>, result |-> "ok"]>>
    /\ loads = <<>>
    /\ alerts = <<0>>

\* One generation failed for the missing API key and the placeholder was
\* loaded and processed.
FellBack(p) ==
    /\ hasApiKey = FALSE
    /\ prompt = p
    /\ generatedImages = DummyImages
    /\ selectedImageIndex = 0
    /\ isGenerating = FALSE
    /\ processedCanvasRef = <<ProcessImage(DUMMY_OVERLAY)>>
    /\ gens = <<NoKeyGen>>
    /\ loads = <<>>
    /\ alerts = <<1>>

TypedPrompt == <<"c", "a", "t">>

(***************************************************************************)
(* The compositing loop on its own: every detection set, with and without  *)
(* a processed bitmap.                                                     *)
(***************************************************************************)
InitDraw ==
    /\ InitKey
    /\ InitLegacy
    /\ \E dets \in DetSets, size \in VideoSizes \ {<<0, 0>>} : Running(dets, size)
    /\ \/ NoGeneration(TypedPrompt)
       \/ Generated(TypedPrompt)
       \/ FellBack(TypedPrompt)

NextDraw ==
    \/ DrawLoop
    \/ \E size \in VideoSizes : VideoResize(size)
    \/ Unmount

SpecDraw == InitDraw /\ [][NextDraw]_vars

(***************************************************************************)
(* Image processing and compositing after a first generation has           *)
(* succeeded, with further generations, and with the detections the        *)
(* detection loop stored left as they are.                                 *)
(***************************************************************************)
OneFace == <<[boundingBox |-> <<[originX |-> 3, originY |-> 1, width |-> 1, height |-> 3]>>]>>

\* The first generation has just succeeded: its first image is selected and
\* its load is in flight.
JustGenerated(p) ==
    /\ hasApiKey = TRUE
    /\ prompt = p
    /\ generatedImages = GenUrls(1)
    /\ selectedImageIndex = 0
    /\ isGenerating = FALSE
    /\ processedCanvasRef = <<>>
    /\ gens = <<[reqs |-> <<"ok", "ok", "ok">>, result |-> "ok"]>>
    /\ loads = <<Url(1, 1)>>
    /\ alerts = <<0>>

InitOverlay ==
    /\ InitKey
    /\ InitLegacy
    /\ \E dets \in {<<>>, OneFace} : Running(dets, <<640, 480>>)
    /\ JustGenerated(TypedPrompt)

NextOverlay ==
    \/ \E isComposing \in BOOLEAN : KeyDownEnter(isComposing)
    \/ \E g \in 1..MaxGens, i \in 1..3, outcome \in {"ok", "status"} :
          SettleRequest(g, i, outcome)
    \/ \E index \in 0..2 : SelectImage(index)
    \/ \E k \in 1..MaxLoads : OverlayImgOnload(k)
    \/ \E k \in 1..MaxLoads : OverlayImgOnerror(k)
    \/ DrawLoop

SpecOverlay == InitOverlay /\ [][NextOverlay]_vars

(***************************************************************************)
(* Generation on its own: every way a request ends, with and without the   *)
(* API key, and the unmount.                                               *)
(***************************************************************************)
InitGen ==
    /\ InitKey
    /\ InitLegacy
    /\ Running(<<>>, <<640, 480>>)
    /\ NoGeneration(TypedPrompt)

NextGen ==
    \/ \E isComposing \in BOOLEAN : KeyDownEnter(isComposing)
    \/ ClickGenerate
    \/ \E g \in 1..MaxGens, i \in 1..3, outcome \in Outcomes : SettleRequest(g, i, outcome)
    \/ Unmount

SpecGen == InitGen /\ [][NextGen]_vars

(***************************************************************************)
(* Camera, detector and the detection loop, with no generation.            *)
(***************************************************************************)
NextDetect ==
    \/ CameraResolved
    \/ CameraRejected
    \/ DetectorResolved
    \/ DetectorRejected
    \/ \E size \in VideoSizes : VideoCanPlay(size)
    \/ \E k \in 1..MaxLoops, step \in FrameSteps : RunDetectionFrame(k, step)
    \/ Unmount

SpecDetect == Init /\ [][NextDetect]_vars

(***************************************************************************)
(* The App component of src/src/App.tsx: one generated image, detections   *)
(* kept in state, and a draw effect that runs again for every new          *)
(* detection array and every new image.  Each run of the effect has its    *)
(* own processedCanvas and its own drawLoop.                               *)
(***************************************************************************)
\* what the App of src/src/App.tsx does not have or leaves alone
legacyUnused == <<keyVars, hasApiKey, prompt, isCameraReady, useFallback, isDetectorReady,
                  generatedImages, selectedImageIndex, refVars, cameraReq, detectorReq,
                  videoReady, videoSize, now, rafDetect, drawFrame, loads, calls>>

\* return () => { cancelAnimationFrame(animId); } of the latest run
LegacyCleanup(runs) ==
    IF runs = <<>>
    THEN runs
    ELSE [runs EXCEPT ![Len(runs)].pending = IF @ = "animId" THEN "none" ELSE @]

\* One run of the draw effect for these values, after the cleanup of the
\* previous run: a new Image for generatedImage, a new drawLoop requested.
LegacyDrawEffect(dets, image, videoEl, runs) ==
    IF ~videoEl
    THEN LegacyCleanup(runs)
    ELSE Append(LegacyCleanup(runs),
                [dets |-> dets, src |-> image,
                 load |-> IF image = <<>> THEN "none" ELSE "pending",
                 processedCanvas |-> <<>>, pending |-> "animId"])

\* ctx.drawImage(processedCanvas, x, y, width, height)
LegacyDrawOp(canvas, det, bbox) ==
    [img |-> canvas, det |-> det,
     x2 |-> 2 * bbox.originX, y2 |-> 2 * bbox.originY,
     w |-> bbox.width, h |-> bbox.height]

\* faceDetections.forEach(detection => { if (bbox && processedCanvas) ... })
RECURSIVE LegacyDrawEach(_, _)
LegacyDrawEach(canvas, dets) ==
    IF dets = <<>>
    THEN <<>>
    ELSE (IF Head(dets).boundingBox # <<>>
          THEN <<LegacyDrawOp(canvas, Head(dets), Head(dets).boundingBox[1])>>
          ELSE <<>>)
         \o LegacyDrawEach(canvas, Tail(dets))

\* if (processedCanvas && faceDetections.length > 0) { forEach ... }
LegacyFrameOps(canvasVar, dets) ==
    IF canvasVar # <<>> /\ Len(dets) > 0 THEN LegacyDrawEach(canvasVar[1], dets) ELSE <<>>

\* One animation-frame callback of the drawLoop of the k-th run.
LegacyDrawLoop(k) ==
    /\ k \in 1..Len(legacyLoops)
    /\ legacyLoops[k].pending # "none"
    /\ LET run == legacyLoops[k]
           ops == LegacyFrameOps(run.processedCanvas, run.dets)
           size == FittedSize(canvasSize, videoSize)
       IN /\ canvasSize' = size
          /\ surface' = ClearRect(surface) \o ops
          /\ legacyLoops' = [legacyLoops EXCEPT ![k].pending = "later"]
          /\ frame' = [ran |-> TRUE, canvas |-> run.processedCanvas, dets |-> run.dets,
                       draws |-> Len(ops), resized |-> size # canvasSize]
    /\ UNCHANGED <<legacyUnused, mounted, isGenerating, gens, alerts, srcObject>>
    /\ UNCHANGED <<legacyImage, legacyDetections>>

\* overlayImg.onload of the k-th run
LegacyImgOnload(k) ==
    /\ k \in 1..Len(legacyLoops)
    /\ legacyLoops[k].load = "pending"
    /\ legacyLoops' = [legacyLoops EXCEPT
                          ![k].load = "done",
                          ![k].processedCanvas = <<ProcessImage(legacyLoops[k].src[1])>>]
    /\ UNCHANGED <<legacyUnused, mounted, isGenerating, gens, alerts, srcObject>>
    /\ UNCHANGED <<canvasSize, surface, frame, legacyImage, legacyDetections>>

\* overlayImg.onerror of the k-th run: logs only
LegacyImgOnerror(k) ==
    /\ k \in 1..Len(legacyLoops)
    /\ legacyLoops[k].load = "pending"
    /\ legacyLoops' = [legacyLoops EXCEPT ![k].load = "failed"]
    /\ UNCHANGED <<legacyUnused, mounted, isGenerating, gens, alerts, srcObject>>
    /\ UNCHANGED <<canvasSize, surface, frame, legacyImage, legacyDetections>>

\* One tick of detectFaces with camera and detector ready: detectForVideo
\* returns a new array, which setFaceDetections stores, or throws.
LegacyDetectFaces(thrown, dets) ==
    /\ mounted
    /\ isCameraReady /\ ~useFallback /\ faceDetectorRef /\ videoReady
    /\ IF thrown
       THEN UNCHANGED vars
       ELSE /\ Len(legacyLoops) < MaxRuns
            /\ legacyDetections' = dets
            /\ legacyLoops' = LegacyDrawEffect(dets, legacyImage, ~useFallback, legacyLoops)
            /\ UNCHANGED <<legacyUnused, mounted, isGenerating, gens, alerts, srcObject>>
            /\ UNCHANGED <<canvasSize, surface, frame, legacyImage>>

\* the single request of a generation of src/src/App.tsx
LegacyGen == [reqs |-> <<"pending">>, result |-> "pending"]
LegacyNoKeyGen == [reqs |-> <<"unsent">>, result |-> "nokey"]

\* setGeneratedImage(url) and the render after it: the draw effect runs again
\* when the string changed.
LegacySetGeneratedImage(url) ==
    /\ legacyImage' = <<url>>
    /\ IF legacyImage = <<url>>
       THEN UNCHANGED legacyLoops
       ELSE /\ Len(legacyLoops) < MaxRuns
            /\ legacyLoops' = LegacyDrawEffect(legacyDetections, <<url>>, ~useFallback,
                                               legacyLoops)

\* handleGenerateImage() up to its first await
LegacyHandleGenerateImage ==
    IF Trim(prompt) = <<>>
    THEN UNCHANGED vars
    ELSE /\ Len(gens) < MaxGens
         /\ IF hasApiKey
            THEN /\ isGenerating' = TRUE
                 /\ gens' = Append(gens, LegacyGen)
                 /\ alerts' = Append(alerts, 0)
                 /\ UNCHANGED <<legacyImage, legacyLoops>>
            ELSE \* throw before the request: catch and finally run at once
                 /\ isGenerating' = FALSE
                 /\ gens' = Append(gens, LegacyNoKeyGen)
                 /\ alerts' = Alert(Append(alerts, 0), Len(gens) + 1)
                 /\ LegacySetGeneratedImage(DUMMY_OVERLAY)
         /\ UNCHANGED <<legacyUnused, mounted, srcObject>>
         /\ UNCHANGED <<canvasSize, surface, frame, legacyDetections>>

\* onKeyDown of the prompt input: e.key === 'Enter' && handleGenerateImage()
LegacyKeyDownEnter ==
    /\ mounted
    /\ LegacyHandleGenerateImage

\* onClick of the generate button, disabled={!prompt.trim() || isGenerating}
LegacyClickGenerate ==
    /\ mounted
    /\ Trim(prompt) # <<>> /\ ~isGenerating
    /\ LegacyHandleGenerateImage

\* The request of generation g ends: handleGenerateImage after its awaits.
LegacySettleRequest(g, outcome) ==
    /\ g \in 1..Len(gens)
    /\ gens[g].result = "pending"
    /\ gens' = [gens EXCEPT ![g] = [reqs |-> <<IF outcome = "ok" THEN "ok" ELSE "fail">>,
                                    result |-> outcome]]
    /\ alerts' = IF outcome = "ok" THEN alerts ELSE Alert(alerts, g)
    /\ IF mounted
       THEN /\ isGenerating' = FALSE
            /\ LegacySetGeneratedImage(IF outcome = "ok" THEN Url(g, 1) ELSE DUMMY_OVERLAY)
       ELSE UNCHANGED <<isGenerating, legacyImage, legacyLoops>>
    /\ UNCHANGED <<legacyUnused, mounted, srcObject>>
    /\ UNCHANGED <<canvasSize, surface, frame, legacyDetections>>

\* The component unmounts: the cleanups of the camera effect, the detection
\* effect and the latest run of the draw effect.
LegacyUnmount ==
    /\ mounted
    /\ mounted' = FALSE
    /\ \E refSet \in BOOLEAN : srcObject' = StopTracks(refSet)
    /\ legacyLoops' = LegacyCleanup(legacyLoops)
    /\ UNCHANGED <<legacyUnused, isGenerating, gens, alerts>>
    /\ UNCHANGED <<canvasSize, surface, frame, legacyImage, legacyDetections>>

\* The App of src/src/App.tsx with camera and detector running and a prompt
\* typed: the draw effect has run once, on mount.
LegacyRunning(p, size) ==
    /\ mounted = TRUE
    /\ hasApiKey \in BOOLEAN
    /\ prompt = p
    /\ isCameraReady = TRUE
    /\ useFallback = FALSE
    /\ isDetectorReady = FALSE
    /\ generatedImages = <<>>
    /\ selectedImageIndex = 0
    /\ isGenerating = FALSE
    /\ faceDetectorRef = TRUE
    /\ animationFrameRef = "id"
    /\ processedCanvasRef = <<>>
    /\ lastDetectionTimeRef = 0
    /\ faceDetectionsRef = <<>>
    /\ cameraReq = "settled"
    /\ detectorReq = "settled"
    /\ srcObject = "live"
    /\ videoReady = TRUE
    /\ videoSize = size
    /\ canvasSize = DefaultCanvasSize
    /\ now = 10
    /\ rafDetect = <<>>
    /\ drawFrame = "none"
    /\ gens = <<>>
    /\ loads = <<>>
    /\ frame = NoFrame
    /\ surface = <<>>
    /\ calls = NoCalls
    /\ alerts = <<>>
    /\ legacyImage = <<>>
    /\ legacyDetections = <<>>
    /\ legacyLoops = LegacyDrawEffect(<<>>, <<>>, TRUE, <<>>)

\* the detection sets of the legacy specification
LegacyDetSets == {<<>>, OneFace, <<OneFace[1], [boundingBox |-> <<[originX |-> 0, originY |-> 2, width |-> 4, height |-> 2]>>]>>}

InitLegacyApp ==
    /\ InitKey
    /\ LegacyRunning(TypedPrompt, <<640, 480>>)

NextLegacy ==
    \/ \E thrown \in BOOLEAN, dets \in LegacyDetSets : LegacyDetectFaces(thrown, dets)
    \/ LegacyKeyDownEnter
    \/ LegacyClickGenerate
    \/ \E g \in 1..MaxGens, outcome \in Outcomes : LegacySettleRequest(g, outcome)
    \/ \E k \in 1..MaxRuns : LegacyImgOnload(k)
    \/ \E k \in 1..MaxRuns : LegacyImgOnerror(k)
    \/ \E k \in 1..MaxRuns : LegacyDrawLoop(k)
    \/ LegacyUnmount

SpecLegacy == InitLegacyApp /\ [][NextLegacy]_vars

(***************************************************************************)
(* From mount, with camera and detector initialisation still to settle,    *)
(* the detection loop and the compositing loop.  A generation without the  *)
(* API key has already put the processed placeholder in place.             *)
(***************************************************************************)
InitStartup ==
    /\ InitKey
    /\ InitLegacy
    /\ FellBack(TypedPrompt)
    /\ mounted = TRUE
    /\ isCameraReady = FALSE
    /\ useFallback = FALSE
    /\ isDetectorReady = FALSE
    /\ faceDetectorRef = FALSE
    /\ animationFrameRef = "null"
    /\ lastDetectionTimeRef = 0
    /\ faceDetectionsRef = <<>>
    /\ cameraReq = "pending"
    /\ detectorReq = "pending"
    /\ srcObject = "none"
    /\ videoReady = FALSE
    /\ videoSize = <<0, 0>>
    /\ canvasSize = DefaultCanvasSize
    /\ now \in StartTimes
    /\ rafDetect = <<>>
    /\ drawFrame = "animId"
    /\ frame = NoFrame
    /\ surface = <<>>
    /\ calls = NoCalls

NextStartup ==
    \/ NextDetect
    \/ DrawLoop

SpecStartup == InitStartup /\ [][NextStartup]_vars

(***************************************************************************)
(* The render surface: the compositing loop from mount, while the camera   *)
(* settles, the video gets its dimensions and changes resolution.          *)
(***************************************************************************)
NextSurface ==
    \/ CameraResolved
    \/ CameraRejected
    \/ \E size \in VideoSizes : VideoCanPlay(size)
    \/ \E size \in VideoSizes : VideoResize(size)
    \/ DrawLoop
    \/ Unmount

SpecSurface == InitStartup /\ [][NextSurface]_vars

\* The compositing loop with the browser running every animation-frame
\* callback that is requested.
SpecDrawFair == InitDraw /\ [][NextDraw]_vars /\ WF_vars(DrawLoop)

(***************************************************************************)
(* The cached bitmap: after a generation has succeeded and its first image *)
(* was processed, frames, detection cycles and changes of the selection.  *)
(***************************************************************************)
InitCache ==
    /\ InitKey
    /\ InitLegacy
    /\ Running(OneFace, <<640, 480>>)
    /\ Generated(TypedPrompt)

NextCache ==
    \/ DrawLoop
    \/ \E k \in 1..MaxLoops, step \in FrameSteps : RunDetectionFrame(k, step)
    \/ \E index \in 0..2 : SelectImage(index)
    \/ \E k \in 1..MaxLoads : OverlayImgOnload(k)

SpecCache == InitCache /\ [][NextCache]_vars

\* Generation with a user who clicks the generate button whenever a click
\* would do something.
SpecGenFair == InitGen /\ [][NextGen]_vars /\ WF_vars(ClickGenerate)

\* The generation handler where every fetch settles: each request that was
\* sent is eventually answered or fails.
SpecGenSettle ==
    /\ InitGen
    /\ [][NextGen]_vars
    /\ \A g \in 1..MaxGens, i \in 1..3 :
          WF_vars(\E outcome \in Outcomes : SettleRequest(g, i, outcome))

\* Generation followed by the load of the selected image, where the browser
\* delivers the load event of every image it was asked to load.
NextGenLoad ==
    \/ NextGen
    \/ \E k \in 1..MaxLoads : OverlayImgOnload(k)

SpecGenLoad ==
    /\ InitGen
    /\ [][NextGenLoad]_vars
    /\ WF_vars(\E k \in 1..MaxLoads : OverlayImgOnload(k))

\* Start-up where the browser runs the animation frames it was asked for
SpecDetectFair ==
    /\ Init
    /\ [][NextDetect]_vars
    /\ WF_vars(\E k \in 1..MaxLoops, step \in FrameSteps : RunDetectionFrame(k, step))

(***************************************************************************)
(* Properties.                                                             *)
(***************************************************************************)

\* C1: after a chroma-key pass, every pixel (r, g, b, a) of the input with
\* g > 100, g > 1.5 r and g > 1.5 b is (r, g, b, 0) in the output, and every
\* other pixel is unchanged; the buffer keeps its length.
C1_ChromaKeyRule ==
    keyPasses >= 1 =>
        /\ Len(keyFirst) = Len(keyIn)
        /\ \A k \in 1..NumPixels(keyIn) :
              LET p == PixelOf(keyIn, k)
                  q == PixelOf(keyFirst, k)
              IN IF p[2] > 100 /\ 10 * p[2] > 15 * p[1] /\ 10 * p[2] > 15 * p[3]
                 THEN q = <<p[1], p[2], p[3], 0>>
                 ELSE q = p

\* C1 witness: the pass has run on an opaque pure-green pixel followed by a
\* half-transparent pure-red one; green is keyed out, red keeps its alpha.
C1_Witness ==
    /\ keyPasses = 1
    /\ keyIn = <<0, 255, 0, 255, 255, 0, 0, 128>>
    /\ keyFirst = <<0, 255, 0, 0, 255, 0, 0, 128>>

\* C2: after the component is unmounted, no compositing frame is scheduled
\* (so none runs).
C2_NoFrameAfterUnmount == ~mounted => drawFrame = "none"

\* out is in with exactly the green pixels made transparent.
KeyedFrom(in, out) ==
    /\ Len(out) = Len(in)
    /\ \A k \in 1..NumPixels(in) :
          LET p == PixelOf(in, k)
              q == PixelOf(out, k)
          IN IF p[2] > 100 /\ 10 * p[2] > 15 * p[1] /\ 10 * p[2] > 15 * p[3]
             THEN q = <<p[1], p[2], p[3], 0>>
             ELSE q = p

\* C3: the bitmap a compositing frame reads, every bitmap on the surface and
\* the bitmap held for the next frame are a loaded source image with the whole
\* chroma-key pass applied: never a raw or partly processed image.
C3_DrawnBitmapComplete ==
    /\ \A c \in {frame.canvas, processedCanvasRef} :
          c # <<>> => KeyedFrom(ImageOf(c[1].src), c[1].data)
    /\ \A k \in 1..Len(surface) :
          KeyedFrom(ImageOf(surface[k].img.src), surface[k].img.data)

\* C3 witness: a frame has drawn a processed generated image, with its green
\* pixels transparent, while the load of another image is in flight.
C3_Witness ==
    /\ frame.ran
    /\ Len(surface) = 1
    /\ surface[1].img.src = Url(1, 1)
    /\ surface[1].img.data = <<0, 255, 0, 0, 255, 0, 0, 255, 30, 200, 40, 0>>
    /\ loads # <<>>

\* C4: a processed bitmap that is held was derived from the currently
\* selected source image.
C4_BitmapOfSelected ==
    processedCanvasRef # <<>> =>
        SelectedImage(generatedImages, selectedImageIndex) = <<processedCanvasRef[1].src>>

\* C5: once a generation has started, no processed bitmap is held or drawn
\* until an image of a result set that came after the start is processed: a
\* bitmap that is held belongs to the current result set.
C5_NoBitmapOfEarlierResults ==
    processedCanvasRef # <<>> =>
        \E i \in 1..Len(generatedImages) : generatedImages[i] = processedCanvasRef[1].src

\* C7: a frame that found a processed bitmap made exactly one draw per
\* detection, in order, each for its own detection.
C7_OneDrawPerDetection ==
    (frame.ran /\ frame.canvas # <<>>) =>
        /\ frame.draws = Len(frame.dets)
        /\ Len(surface) = Len(frame.dets)
        /\ \A k \in 1..Len(surface) :
              /\ surface[k].det = frame.dets[k]
              /\ surface[k].img = frame.canvas[1]

\* C7 witness: a frame with a processed bitmap and two detections made two draws.
C7_Witness ==
    /\ frame.ran
    /\ frame.canvas # <<>>
    /\ Len(frame.dets) = 2
    /\ frame.dets[1] # frame.dets[2]
    /\ frame.draws = 2

\* C8: every draw on the surface, for a detection with box (x, y, w, h), has
\* width 2w and height 2h and origin (x - w/2, y - h/2), so that its centre is
\* the centre of the box.  (x2, y2 are twice the origin.)
C8_ScaledAndCentred ==
    \A k \in 1..Len(surface) :
        LET op == surface[k]
            b == op.det.boundingBox[1]
        IN /\ op.w = 2 * b.width
           /\ op.h = 2 * b.height
           /\ op.x2 = 2 * b.originX - b.width
           /\ op.y2 = 2 * b.originY - b.height
           /\ op.x2 + op.w = 2 * b.originX + b.width
           /\ op.y2 + op.h = 2 * b.originY + b.height

\* C9: after a frame that found no detection or no processed bitmap the
\* surface is clear, no draw was made, and the next frame is scheduled.
C9_EmptyFrameClears ==
    (frame.ran /\ (frame.dets = <<>> \/ frame.canvas = <<>>)) =>
        /\ surface = <<>>
        /\ frame.draws = 0
        /\ drawFrame # "none"

\* C9 witness: a frame ran with a face detected and no processed bitmap, after
\* a bitmap had been processed (a generation was started since).
C9_Witness ==
    /\ frame.ran
    /\ frame.dets # <<>>
    /\ frame.canvas = <<>>
    /\ Len(gens) = 2
    /\ surface = <<>>

\* C10: two consecutive invocations of detectForVideo are at least
\* DETECTION_INTERVAL ms apart.
C10_Throttled == calls.gap = -1 \/ calls.gap >= DETECTION_INTERVAL

\* the ways a generation fails: the four kinds of request failure and the
\* missing API key
FailureKinds == {"network", "status", "failed", "nooutput", "nokey"}

\* C6: a generation that failed, for whatever kind of failure and however many
\* of its requests failed, has raised exactly one alert, a generation that has
\* not failed none; and the step at which a generation fails, in a mounted
\* component, makes '/dummy-overlay.jpg' the selected overlay image.
C6_AlertOnceAndPlaceholder ==
    /\ [](\A g \in 1..Len(gens) :
             alerts[g] = IF gens[g].result \in FailureKinds THEN 1 ELSE 0)
    /\ [][\A g \in 1..Len(gens') :
             (/\ mounted
              /\ gens'[g].result \in FailureKinds
              /\ (g > Len(gens) \/ gens[g].result = "pending"))
             => /\ SelectedImage(generatedImages', selectedImageIndex') = <<DUMMY_OVERLAY>>
                /\ DUMMY_OVERLAY.path = "/dummy-overlay.jpg"]_vars

\* C6 witness: a generation failed on a non-2xx response, a second of its
\* requests failed too, one alert was raised and the placeholder is selected.
C6_Witness ==
    \E g \in 1..Len(gens) :
        /\ mounted
        /\ gens[g].result = "status"
        /\ Len(SelectSeq(gens[g].reqs, LAMBDA r : r = "fail")) = 2
        /\ alerts[g] = 1
        /\ SelectedImage(generatedImages, selectedImageIndex) = <<DUMMY_OVERLAY>>

\* C11: at the step at which the load of the selected overlay image fails, the
\* pass does not run and no processed bitmap is held afterwards, whatever was
\* held before.
C11_NoBitmapAfterLoadError ==
    [][\A k \in 1..Len(loads) :
          (/\ OverlayImgOnerror(k)
           /\ SelectedImage(generatedImages, selectedImageIndex) = <<loads[k]>>)
          => processedCanvasRef' = <<>>]_vars

\* C12: once the component is unmounted, a camera stream the session has
\* acquired has all its tracks stopped, whether it was acquired before or
\* after the unmount.
C12_TracksStoppedAfterUnmount ==
    ~mounted => srcObject \in {"none", "stopped"}

\* C13: once the component is unmounted no detection tick is scheduled and
\* detectForVideo is not invoked again, whatever happened before the unmount
\* and whatever promise settles after it.
C13_DetectionStopsAfterUnmount ==
    /\ [](~mounted => rafDetect = <<>>)
    /\ [][~mounted => calls' = calls]_vars

\* C13 witness: the component was unmounted while the detection loop was
\* running, after the detector had been invoked twice.
C13_Witness ==
    /\ ~mounted
    /\ isCameraReady /\ isDetectorReady
    /\ calls.gap >= DETECTION_INTERVAL
    /\ rafDetect = <<>>

\* C14: in fallback mode (camera acquisition failed) detection and compositing
\* are not running: the detector has not been invoked, no detection tick and
\* no compositing frame is scheduled, and nothing is drawn.
C14_FallbackDisablesLoops ==
    (useFallback /\ isCameraReady) =>
        /\ calls = NoCalls
        /\ rafDetect = <<>>
        /\ drawFrame = "none"
        /\ surface = <<>>

\* C15: once the detector's initialisation has failed, the detector has not
\* been invoked, no detection tick is or was scheduled, the detection set is
\* empty in every frame, nothing is drawn, and while the component is mounted
\* the compositing loop has its next frame scheduled.
C15_DetectorFailureLeavesEmptyLoop ==
    (detectorReq = "settled" /\ ~faceDetectorRef) =>
        /\ calls = NoCalls
        /\ rafDetect = <<>>
        /\ animationFrameRef = "null"
        /\ faceDetectionsRef = <<>>
        /\ frame.dets = <<>>
        /\ frame.draws = 0
        /\ surface = <<>>
        /\ mounted => drawFrame # "none"

\* C15 witness: the detector failed to initialise, the camera is live with
\* frames to show, and a compositing frame ran with a processed bitmap and
\* drew nothing.
C15_Witness ==
    /\ detectorReq = "settled" /\ ~faceDetectorRef
    /\ mounted
    /\ isCameraReady /\ ~useFallback /\ videoReady
    /\ frame.ran
    /\ frame.canvas # <<>>
    /\ frame.draws = 0
    /\ drawFrame = "later"

\* C16 as stated: every compositing frame leaves the surface with the
\* video's width and height, and does not resize when they already match.
C16_SurfaceMatchesVideo ==
    [][DrawLoop =>
          /\ canvasSize' = videoSize
          /\ canvasSize = videoSize => ~frame'.resized]_vars

\* C16, amended: every compositing frame leaves the surface with the video's
\* width and height when the video has dimensions, and with the layout size
\* of the video element when the video has none yet; it does not resize when
\* surface and video already match.
C16_SurfaceMatchesVideoOrLayout ==
    [][DrawLoop =>
          /\ videoSize # <<0, 0>> => canvasSize' = videoSize
          /\ videoSize = <<0, 0>> => canvasSize' = OffsetSize
          /\ canvasSize = videoSize => (canvasSize' = canvasSize /\ ~frame'.resized)]_vars

\* C16 witness: a frame has resized the surface to 1280x720, the resolution
\* the video changed to.
C16_Witness ==
    /\ frame.ran
    /\ frame.resized
    /\ videoSize = <<1280, 720>>
    /\ canvasSize = <<1280, 720>>

\* C17: the pass applied to the output of the pass gives that output again.
C17_PassIdempotent ==
    keyPasses = 2 => keyOut = keyFirst

\* C17 witness: two passes were run over a green pixel and a half-transparent
\* red pixel, and the first pass changed the buffer.
C17_Witness ==
    /\ keyPasses = 2
    /\ keyIn = <<0, 255, 0, 255, 255, 0, 0, 128>>
    /\ keyFirst # keyIn
    /\ keyOut = <<0, 255, 0, 0, 255, 0, 0, 128>>

C19_PassOncePerSource ==
    /\ [][(DrawLoop \/ \E k \in 1..MaxLoops, step \in FrameSteps : RunDetectionFrame(k, step))
             => (processedCanvasRef' = processedCanvasRef /\ loads' = loads)]_vars
    /\ [][processedCanvasRef' # processedCanvasRef
             => (Len(loads') = Len(loads) - 1 /\ processedCanvasRef' # <<>>)]_vars
    /\ [][Len(loads') > Len(loads)
             => /\ Len(loads') = Len(loads) + 1
                /\ selectedImageIndex' # selectedImageIndex
                /\ loads'[Len(loads')] = generatedImages[selectedImageIndex' + 1]]_vars

\* C19 witness: the selection was changed to the second image, which was
\* loaded and processed once; since then the detector has been invoked twice
\* and a frame has drawn the cached bitmap.
C19_Witness ==
    /\ selectedImageIndex = 1
    /\ loads = <<>>
    /\ processedCanvasRef = <<ProcessImage(Url(1, 2))>>
    /\ calls.gap >= DETECTION_INTERVAL
    /\ frame.ran
    /\ frame.canvas = processedCanvasRef
    /\ Len(surface) >= 1

\* C20: with the API key set, a prompt typed and no generation in progress,
\* pressing Enter outside IME composition starts a generation (isGenerating
\* true, the alternatives cleared, the three requests pending), and so does
\* clicking the generate button: with a user who clicks, a generation gets
\* started unless the component is unmounted first.
C20_TriggerStartsGeneration ==
    /\ [][(/\ hasApiKey /\ ~isGenerating /\ Trim(prompt) # <<>>
           /\ KeyDownEnter(FALSE))
          => (/\ isGenerating'
              /\ generatedImages' = <<>>
              /\ gens' = Append(gens, NewGen))]_vars
    /\ (mounted /\ hasApiKey /\ ~isGenerating /\ Trim(prompt) # <<>> /\ gens = <<>>)
          ~> (isGenerating \/ ~mounted)

\* the generations whose Promise.all has not settled
InFlight == {g \in 1..Len(gens) : gens[g].result = "pending"}

\* C21: at most one generation is in flight, and no step taken while
\* isGenerating is true starts a generation.
C21_OneGenerationInFlight ==
    /\ [](Cardinality(InFlight) <= 1)
    /\ [][isGenerating => Len(gens') = Len(gens)]_vars

\* what the last started generation set or will have set once settled
ResultOf(g) == IF gens[g].result = "ok" THEN GenUrls(g) ELSE DummyImages

\* C22: once every started generation has settled, the alternatives are the
\* result of the most recently started generation and isGenerating is false.
C22_LatestGenerationWins ==
    (mounted /\ Len(gens) > 0 /\ InFlight = {})
        => (generatedImages = ResultOf(Len(gens)) /\ ~isGenerating)

\* C23: when its requests settle, every started generation terminates; at the
\* step that ends it, in a mounted component, isGenerating is false and the
\* alternatives are its three returned URLs or three placeholders.
C23_GenerationTerminates ==
    /\ \A g \in 1..MaxGens : (g \in InFlight) ~> (g \notin InFlight)
    /\ [][\A g \in InFlight :
             (mounted /\ gens'[g].result # "pending")
             => /\ ~isGenerating'
                /\ Len(generatedImages') = 3
                /\ generatedImages' \in {GenUrls(g), DummyImages}]_vars

\* C23 witness: one generation ended with its URLs, another with placeholders
C23_Witness ==
    /\ mounted /\ ~isGenerating /\ Len(gens) = 2 /\ InFlight = {}
    /\ gens[1].result = "ok" /\ gens[2].result \in FailureKinds
    /\ generatedImages = DummyImages

\* the images whose load is in flight
Loading == {loads[k] : k \in 1..Len(loads)}

\* C24: the step at which all three requests of a generation have succeeded
\* makes its URLs the alternatives, in request order, selects the first and
\* starts its load; a load event derives the processed bitmap from the image
\* that loaded; so the bitmap of that first image eventually is the one the
\* compositing loop reads.
C24_SuccessYieldsBitmap ==
    /\ [][\A g \in InFlight :
             (mounted /\ gens'[g].result = "ok")
             => /\ generatedImages' = <<Url(g, 1), Url(g, 2), Url(g, 3)>>
                /\ selectedImageIndex' = 0
                /\ loads' = Append(loads, Url(g, 1))]_vars
    /\ [][\A k \in 1..Len(loads) :
             OverlayImgOnload(k)
             => processedCanvasRef' =
                   <<[src |-> loads[k], data |-> ChromaKeyPass(ImageOf(loads[k]))]>>]_vars
    /\ \A g \in 1..MaxGens :
          (g <= Len(gens) /\ gens[g].result = "ok" /\ Url(g, 1) \in Loading)
             ~> (processedCanvasRef # <<>> /\ processedCanvasRef[1].src = Url(g, 1))

\* C24 witness: the first generation succeeded, its first image is selected
\* and the bitmap keyed from it is the current one.
C24_Witness ==
    /\ mounted /\ Len(gens) = 1 /\ gens[1].result = "ok"
    /\ generatedImages = <<Url(1, 1), Url(1, 2), Url(1, 3)>>
    /\ selectedImageIndex = 0
    /\ processedCanvasRef = <<[src |-> Url(1, 1), data |-> ChromaKeyPass(ImageOf(Url(1, 1)))]>>

\* C25: the alternatives are empty, the three URLs of one generation that
\* succeeded, or three placeholders, never a mix; no URL of a generation with a
\* failed request is among them; and the step at which a generation fails
\* sets three placeholders whatever its other requests returned.
C25_AllOrNothing ==
    /\ [](\/ generatedImages = <<>>
          \/ generatedImages = <<DUMMY_OVERLAY, DUMMY_OVERLAY, DUMMY_OVERLAY>>
          \/ \E g \in 1..Len(gens) :
                /\ gens[g].result = "ok"
                /\ generatedImages = <<Url(g, 1), Url(g, 2), Url(g, 3)>>)
    /\ [](\A g \in 1..Len(gens) :
             (\E i \in 1..3 : gens[g].reqs[i] = "fail")
             => \A j \in 1..Len(generatedImages) : generatedImages[j].gen # g)
    /\ [][\A g \in InFlight :
             (mounted /\ gens'[g].result \in FailureKinds)
             => generatedImages' = <<DUMMY_OVERLAY, DUMMY_OVERLAY, DUMMY_OVERLAY>>]_vars

\* C25 witness: two requests of a generation returned URLs, the third failed,
\* and the alternatives are three placeholders.
C25_Witness ==
    /\ mounted /\ Len(gens) = 1
    /\ gens[1].reqs = <<"ok", "ok", "fail">>
    /\ generatedImages = <<DUMMY_OVERLAY, DUMMY_OVERLAY, DUMMY_OVERLAY>>

\* the last call of the detector threw: it is later than the last detection
Thrown == calls.last > lastDetectionTimeRef

\* C26: a tick whose detector call throws (the first, which the detection
\* effect runs itself, or one run by an animation frame) leaves the latest
\* detection set unchanged and has requested the next tick; the next tick of
\* the running loop, once the video has data, calls the detector again.
C26_ThrowCaughtAtTick ==
    /\ [][(calls' # calls /\ lastDetectionTimeRef' # now')
          => /\ faceDetectionsRef' = faceDetectionsRef
             /\ Len(rafDetect') >= Len(rafDetect) /\ Len(rafDetect') > 0
             /\ rafDetect'[Len(rafDetect')].latest
             /\ animationFrameRef' = "id"]_vars
    /\ [][\A k \in 1..Len(rafDetect), step \in FrameSteps :
             (/\ Thrown /\ mounted /\ ~useFallback /\ faceDetectorRef /\ videoReady
              /\ rafDetect[k].cam /\ ~rafDetect[k].fb
              /\ RunDetectionFrame(k, step))
             => calls' = Invoked(calls, now')]_vars

\* C26 witness: the detector was called again 16 ms after a call that threw,
\* threw again, and the next tick is pending.
C26_Witness ==
    /\ mounted /\ Thrown /\ calls.gap = 16
    /\ Len(rafDetect) = 1 /\ rafDetect[1].latest

\* C27: the alternatives are none or three, selectedImageIndex is 0, 1 or 2
\* and names one of them when there are any, and processedCanvasRef holds at
\* most one bitmap.
C27_ShapeOfOverlayState ==
    /\ Len(generatedImages) \in {0, 3}
    /\ selectedImageIndex \in 0..2
    /\ (generatedImages # <<>> => selectedImageIndex + 1 \in DOMAIN generatedImages)
    /\ Len(processedCanvasRef) <= 1

\* C27 witness: three alternatives, the third selected, with a bitmap held
C27_Witness ==
    /\ Len(generatedImages) = 3 /\ selectedImageIndex = 2
    /\ Len(processedCanvasRef) = 1 /\ Len(gens) = 2

\* camera acquisition and detector initialisation have both succeeded
BothSucceeded == mounted /\ isCameraReady /\ ~useFallback /\ faceDetectorRef

\* C28: at most one detection tick is pending at any time; once camera and
\* detector have both succeeded, in either order, the tick of the detection
\* loop is pending; and once the video has data the detector is eventually
\* called, unless the component unmounts or the modelled time runs out first.
C28_OneLoopStarted ==
    /\ [](Len(rafDetect) <= 1)
    /\ [](BothSucceeded
            => /\ isDetectorReady
               /\ rafDetect = <<[cam |-> TRUE, fb |-> FALSE, latest |-> TRUE]>>)
    /\ (BothSucceeded /\ videoReady)
          ~> (calls.last # -1 \/ ~mounted \/ now + 40 > MaxTime)

\* C28 witness: camera and detector are ready, the video has data, and the
\* one pending loop has called the detector
C28_Witness ==
    /\ BothSucceeded /\ videoReady /\ calls.last # -1 /\ now + 40 <= MaxTime
    /\ Len(rafDetect) = 1

\* the runs of the draw effect whose drawLoop has a frame callback pending
LiveLoops == {k \in 1..Len(legacyLoops) : legacyLoops[k].pending # "none"}

\* C29: at most one compositing loop of src/src/App.tsx has a frame callback
\* pending.
C29_OneCompositingLoop == Cardinality(LiveLoops) <= 1

==========================================================================
